---- MODULE Spec2Model ----
(***************************************************************************)
(* Model of pkg/update/update.go: the self-update callbacks                *)
(* (GetUpdateToolFromRepoCallback, GetToolVersionCallback,                 *)
(* GetUpdateDirFromRepoCallback) and the archive path resolver             *)
(* calculateTemplateAbsolutePath.                                          *)
(*                                                                         *)
(* Go strings are sequences of one-character strings, so that prefix,      *)
(* case folding, trimming, splitting and path cleaning are computed on     *)
(* characters as the library functions compute them.                       *)
(***************************************************************************)
EXTENDS Integers, Sequences, FiniteSets, TLC

(***************************************************************************)
(* Bounds of the model.                                                    *)
(***************************************************************************)
\* directory segments in front of the file name of a generated entry path
MaxDirs == 3
\* entries of a generated archive (directory extraction)
MaxEntries == 3

(***************************************************************************)
(* Strings.                                                                *)
(***************************************************************************)
UpperChars == <<"A","B","C","D","E","F","G","H","I","J","K","L","M",
                "N","O","P","Q","R","S","T","U","V","W","X","Y","Z">>
LowerChars == <<"a","b","c","d","e","f","g","h","i","j","k","l","m",
                "n","o","p","q","r","s","t","u","v","w","x","y","z">>

\* unicode.SimpleFold restricted to ASCII letters
FoldChar(c) ==
  IF \E i \in 1..Len(UpperChars) : UpperChars[i] = c
    THEN LowerChars[CHOOSE i \in 1..Len(UpperChars) : UpperChars[i] = c]
    ELSE c

\* strings.EqualFold
EqualFold(s, t) ==
  /\ Len(s) = Len(t)
  /\ \A i \in 1..Len(s) : FoldChar(s[i]) = FoldChar(t[i])

\* strings.HasPrefix
HasPrefix(s, p) ==
  /\ Len(p) <= Len(s)
  /\ SubSeq(s, 1, Len(p)) = p

WhiteSpace == {" ", "\t", "\n", "\r"}

\* strings.TrimSpace
RECURSIVE TrimLeft(_)
TrimLeft(s) ==
  IF s # <<>> /\ Head(s) \in WhiteSpace THEN TrimLeft(Tail(s)) ELSE s

RECURSIVE TrimRight(_)
TrimRight(s) ==
  IF s # <<>> /\ s[Len(s)] \in WhiteSpace
    THEN TrimRight(SubSeq(s, 1, Len(s) - 1))
    ELSE s

TrimSpace(s) == TrimRight(TrimLeft(s))

\* strings.Split(s, sep) for one-character separators: never empty
RECURSIVE SplitBy(_, _)
SplitBy(s, seps) ==
  IF \A i \in 1..Len(s) : s[i] \notin seps
    THEN <<s>>
    ELSE LET i == CHOOSE k \in 1..Len(s) :
                    /\ s[k] \in seps
                    /\ \A j \in 1..(k - 1) : s[j] \notin seps
         IN  <<SubSeq(s, 1, i - 1)>> \o SplitBy(SubSeq(s, i + 1, Len(s)), seps)

\* strings.Join(elems, sep)
RECURSIVE JoinWith(_, _)
JoinWith(elems, sep) ==
  IF elems = <<>> THEN <<>>
  ELSE IF Len(elems) = 1 THEN elems[1]
  ELSE elems[1] \o <<sep>> \o JoinWith(Tail(elems), sep)

(***************************************************************************)
(* Platform classes (folderutil.IsUnixOS / IsWindowsOS) and path/filepath. *)
(***************************************************************************)
Platforms == {"unix", "windows", "other"}

\* os.PathSeparator
PathSeparator(os) == IF os = "windows" THEN "\\" ELSE "/"

\* os.IsPathSeparator
Separators(os) == IF os = "windows" THEN {"/", "\\"} ELSE {"/"}

\* filepath.Split: the path up to and including its last separator, and the rest
FilepathSplit(os, path) ==
  LET idx == {i \in 1..Len(path) : path[i] \in Separators(os)}
      cut == IF idx = {} THEN 0 ELSE CHOOSE i \in idx : \A j \in idx : j <= i
  IN  [dir |-> SubSeq(path, 1, cut), file |-> SubSeq(path, cut + 1, Len(path))]

\* the component stack of filepath.Clean: "." and "" are dropped, ".." removes
\* the component before it, is kept in front of a relative path and is dropped
\* at the root
RECURSIVE CleanStack(_, _, _)
CleanStack(comps, stack, rooted) ==
  IF comps = <<>> THEN stack
  ELSE LET c == Head(comps)
           next == IF c = <<>> \/ c = <<".">> THEN stack
                   ELSE IF c = <<".", ".">>
                     THEN IF stack # <<>> /\ stack[Len(stack)] # <<".", ".">>
                            THEN SubSeq(stack, 1, Len(stack) - 1)
                            ELSE IF rooted THEN stack ELSE Append(stack, c)
                   ELSE Append(stack, c)
       IN  CleanStack(Tail(comps), next, rooted)

IsRooted(os, path) == path # <<>> /\ path[1] \in Separators(os)

CleanComps(os, path) ==
  CleanStack(SplitBy(path, Separators(os)), <<>>, IsRooted(os, path))

\* filepath.Clean
Clean(os, path) ==
  LET body == JoinWith(CleanComps(os, path), PathSeparator(os))
  IN  IF IsRooted(os, path) THEN <<PathSeparator(os)>> \o body
      ELSE IF body = <<>> THEN <<".">>
      ELSE body

\* filepath.Join: from the first non-empty element on, joined and cleaned
RECURSIVE FilepathJoin(_, _)
FilepathJoin(os, elems) ==
  IF elems = <<>> THEN <<>>
  ELSE IF Head(elems) = <<>> THEN FilepathJoin(os, Tail(elems))
  ELSE Clean(os, JoinWith(elems, PathSeparator(os)))

(***************************************************************************)
(* calculateTemplateAbsolutePath (update.go:173-205).                      *)
(***************************************************************************)
DotVersion == <<".","v","e","r","s","i","o","n">>
ReadmeName == <<"R","E","A","D","M","E",".","m","d">>

\* the file-name rule without the exemption of the version marker
FileNameSkippedWithoutMarker(fileName) ==
  \/ TrimSpace(fileName) = <<>>
  \/ HasPrefix(fileName, <<".">>)
  \/ EqualFold(fileName, ReadmeName)

\* the file-name rule with README.md compared in exact case
FileNameSkippedExactCase(fileName) ==
  /\ ~EqualFold(fileName, DotVersion)
  /\ \/ TrimSpace(fileName) = <<>>
     \/ HasPrefix(fileName, <<".">>)
     \/ fileName = ReadmeName

\* the file-name rule of lines 176-180
FileNameSkipped(fileName) ==
  /\ ~EqualFold(fileName, DotVersion)
  /\ \/ TrimSpace(fileName) = <<>>
     \/ HasPrefix(fileName, <<".">>)
     \/ EqualFold(fileName, ReadmeName)

\* folderutil.NewPathInfo(directory).Parts, a library outside this repository
\* whose error the caller drops (line 189): the zero value when the lookup
\* fails, else the components of the directory, of which the library may drop
\* the empty ones and may clean the path first
WindowsPartsChoices(directory) ==
  LET seps == Separators("windows")
      nonEmpty(parts) == SelectSeq(parts, LAMBDA c : c # <<>>)
  IN  { <<>>,
        SplitBy(directory, seps),
        nonEmpty(SplitBy(directory, seps)),
        nonEmpty(SplitBy(Clean("windows", directory), seps)) }

\* lines 182-191: directoryPathChunks stays nil on a platform that is neither
\* Unix nor Windows
DirectoryPathChunks(os, directory, parts) ==
  IF os = "unix" THEN SplitBy(directory, {PathSeparator(os)})
  ELSE IF os = "windows" THEN parts
  ELSE <<>>

\* directoryPathChunks[1:] panics on a slice of length 0 (line 192)
SlicePanics(chunks) == Len(chunks) < 1

\* the root directory kept: directoryPathChunks[0:]
KeepZipRoot(chunks) == chunks

\* directoryPathChunks[1:] (line 192): the archive's root directory is dropped
StripZipRoot(chunks) == Tail(chunks)

\* line 194: the guard on the root-stripped directory path
DirectorySkipped(relative) == HasPrefix(relative, <<".">>)

NoPath == <<>>

Returned(path, skip, err, made) ==
  [outcome |-> "return", path |-> path, skip |-> skip, err |-> err, made |-> made]

Panicked == [outcome |-> "panic", path |-> NoPath, skip |-> FALSE, err |-> FALSE,
             made |-> NoPath]

\* parts is what the Windows path-info lookup gives and mkdirOk whether
\* os.MkdirAll succeeds; made is the directory os.MkdirAll created
calculateTemplateAbsolutePath(os, zipFilePath, configuredTemplateDirectory, parts, mkdirOk) ==
  LET split == FilepathSplit(os, zipFilePath)
      directory == split.dir
      fileName == split.file
      directoryPathChunks == DirectoryPathChunks(os, directory, parts)
      relativeDirectoryPathWithoutZipRoot ==
        FilepathJoin(os, StripZipRoot(directoryPathChunks))
      templateDirectory ==
        FilepathJoin(os, <<configuredTemplateDirectory,
                             relativeDirectoryPathWithoutZipRoot>>)
  IN  IF FileNameSkipped(fileName) THEN Returned(NoPath, TRUE, FALSE, NoPath)
      ELSE IF SlicePanics(directoryPathChunks) THEN Panicked
      ELSE IF DirectorySkipped(relativeDirectoryPathWithoutZipRoot)
        THEN Returned(NoPath, TRUE, FALSE, NoPath)
      ELSE IF ~mkdirOk THEN Returned(NoPath, FALSE, TRUE, NoPath)
      ELSE Returned(FilepathJoin(os, <<templateDirectory, fileName>>),
                    FALSE, FALSE, templateDirectory)

(***************************************************************************)
(* Generated inputs of the resolver.                                       *)
(***************************************************************************)
DirTokens == { <<>>, <<".">>, <<".",".">>, <<"a">>, <<".","g">> }

FileTokens == { <<>>, DotVersion, <<".","V","e","r","s","i","o","N">>,
                ReadmeName, <<"r","e","a","d","m","e",".","M","D">>,
                <<".","g">>, <<"f">>, <<" ">>, <<"a","\\",".","."  >> }

BaseDirs == { <<>>, <<"/","t">>, <<"t","/",".",".","/","u">> }

RECURSIVE SeqsUpTo(_, _)
SeqsUpTo(S, n) ==
  IF n = 0 THEN {<<>>}
  ELSE LET shorter == SeqsUpTo(S, n - 1)
       IN  shorter \cup {Append(q, x) : q \in shorter, x \in S}

\* d1/d2/.../dk/file, or the bare file name when there is no directory
EntryPath(dirSegs, file) == JoinWith(Append(dirSegs, file), "/")

EntryPaths == {EntryPath(d, f) : d \in SeqsUpTo(DirTokens, MaxDirs), f \in FileTokens}

(***************************************************************************)
(* semver.NewVersion, Version.String and IsOutdated.                       *)
(***************************************************************************)
DigitChars == <<"0","1","2","3","4","5","6","7","8","9">>

IsDigit(c) == \E i \in 1..Len(DigitChars) : DigitChars[i] = c

DigitValue(c) == (CHOOSE i \in 1..Len(DigitChars) : DigitChars[i] = c) - 1

IsNumber(s) == s # <<>> /\ \A i \in 1..Len(s) : IsDigit(s[i])

RECURSIVE NumberValue(_)
NumberValue(s) ==
  IF s = <<>> THEN 0
  ELSE 10 * NumberValue(SubSeq(s, 1, Len(s) - 1)) + DigitValue(s[Len(s)])

RECURSIVE NumberString(_)
NumberString(n) ==
  IF n < 10 THEN <<DigitChars[n + 1]>>
  ELSE NumberString(n \div 10) \o <<DigitChars[(n % 10) + 1]>>

NoVersion == [ok |-> FALSE, major |-> 0, minor |-> 0, patch |-> 0, pre |-> <<>>]

\* semver.NewVersion: an optional v, one to three dot-separated numbers (the
\* missing ones are 0) and an optional -prerelease; anything else is an error
NewVersion(s) ==
  LET body == IF HasPrefix(s, <<"v">>) THEN Tail(s) ELSE s
      dashes == {i \in 1..Len(body) : body[i] = "-"}
      dash == IF dashes = {} THEN Len(body) + 1
              ELSE CHOOSE i \in dashes : \A j \in dashes : i <= j
      core == SubSeq(body, 1, dash - 1)
      pre == SubSeq(body, dash + 1, Len(body))
      nums == SplitBy(core, {"."})
      num(i) == IF i <= Len(nums) THEN NumberValue(nums[i]) ELSE 0
  IN  IF /\ Len(nums) <= 3
         /\ \A i \in 1..Len(nums) : IsNumber(nums[i])
         /\ (dashes # {} => pre # <<>>)
        THEN [ok |-> TRUE, major |-> num(1), minor |-> num(2), patch |-> num(3),
              pre |-> pre]
        ELSE NoVersion

\* Version.String: major.minor.patch[-prerelease]
VersionString(v) ==
  NumberString(v.major) \o <<".">> \o NumberString(v.minor) \o <<".">>
    \o NumberString(v.patch)
    \o (IF v.pre = <<>> THEN <<>> ELSE <<"-">> \o v.pre)

\* semantic-version precedence: numbers first; a prerelease is lower than the
\* release it precedes
VersionLess(a, b) ==
  \/ a.major < b.major
  \/ a.major = b.major /\ a.minor < b.minor
  \/ a.major = b.major /\ a.minor = b.minor /\ a.patch < b.patch
  \/ /\ a.major = b.major /\ a.minor = b.minor /\ a.patch = b.patch
     /\ a.pre # <<>>
     /\ b.pre = <<>>

\* IsOutdated(current, latest): current < latest
IsOutdated(current, latest) == VersionLess(NewVersion(current), NewVersion(latest))

VersionStrings ==
  { <<"1",".","2",".","0">>, <<"v","1",".","2",".","0">>, <<"1",".","3">>,
    <<"1",".","3",".","0","-","b">>, <<"1",".","2",".","x">>, <<>> }

(***************************************************************************)
(* The filesystem below the template directory, and os.WriteFile.          *)
(***************************************************************************)
NoWrite == [path |-> NoPath, data |-> "", perm |-> 0]

\* os.WriteFile(name, data, perm): perm is given to a file that is created and
\* an existing file keeps its own; the call fails before it opens the file or
\* after it has truncated it
WriteFile(fs, name, data, perm, how) ==
  LET keep == IF name \in DOMAIN fs THEN fs[name].perm ELSE perm
      put(d) == [p \in DOMAIN fs \cup {name} |->
                   IF p = name THEN [data |-> d, perm |-> keep] ELSE fs[p]]
  IN  IF how = "ok" THEN [files |-> put(data), err |-> FALSE]
      ELSE IF how = "truncated" THEN [files |-> put(""), err |-> TRUE]
      ELSE [files |-> fs, err |-> TRUE]

\* what the environment does to one call of the callback: nothing, or the
\* failure of os.MkdirAll, of io.ReadAll, or of os.WriteFile
Environments == {"ok", "mkdirFails", "readFails", "truncated", "notOpened"}

\* the callback with the error of io.ReadAll dropped: nothing is written and nil
\* is returned
callbackDroppingReadError(os, e, dir, parts, env, fs) ==
  LET r == calculateTemplateAbsolutePath(os, e.path, dir, parts, env # "mkdirFails")
      w == WriteFile(fs, r.path, e.data, e.mode, env)
      out(err, fail, files, wrote) ==
        [r |-> r, err |-> err, fail |-> fail, files |-> files, wrote |-> wrote]
  IN  IF r.outcome = "panic" THEN out(FALSE, "panic", fs, NoWrite)
      ELSE IF r.err THEN out(TRUE, "mkdir", fs, NoWrite)
      ELSE IF r.skip THEN out(FALSE, "none", fs, NoWrite)
      ELSE IF env = "readFails" THEN out(FALSE, "read", fs, NoWrite)
      ELSE out(w.err, IF w.err THEN "write" ELSE "none", w.files,
               [path |-> r.path, data |-> e.data, perm |-> e.mode])

\* the per-entry callback of GetUpdateDirFromRepoCallback (lines 152-166)
callback(os, e, dir, parts, env, fs) ==
  LET r == calculateTemplateAbsolutePath(os, e.path, dir, parts, env # "mkdirFails")
      w == WriteFile(fs, r.path, e.data, e.mode, env)
      out(err, fail, files, wrote) ==
        [r |-> r, err |-> err, fail |-> fail, files |-> files, wrote |-> wrote]
  IN  IF r.outcome = "panic" THEN out(FALSE, "panic", fs, NoWrite)
      ELSE IF r.err THEN out(TRUE, "mkdir", fs, NoWrite)
      ELSE IF r.skip THEN out(FALSE, "none", fs, NoWrite)
      ELSE IF env = "readFails" THEN out(TRUE, "read", fs, NoWrite)
      ELSE out(w.err, IF w.err THEN "write" ELSE "none", w.files,
               [path |-> r.path, data |-> e.data, perm |-> e.mode])

(***************************************************************************)
(* Generated inputs of the operations.                                     *)
(***************************************************************************)
ToolNames == {"tool"}
RepoNames == {"", "org/repo"}

ArchiveEntry(path, mode, data) == [path |-> path, mode |-> mode, data |-> data]

ArchiveEntries ==
  { ArchiveEntry(<<"r","/","a","/","f">>, 420, "d1"),
    ArchiveEntry(<<"x","/","a","/","f">>, 493, "d3"),
    ArchiveEntry(<<"r","/","a","/">>, 493, ""),
    ArchiveEntry(<<"r","/",".","g","/","f">>, 420, "d4"),
    ArchiveEntry(<<"r","/","R","e","a","d","m","e",".","M","D">>, 420, "d5"),
    ArchiveEntry(<<"r","/","a","/",".","g">>, 420, "d6") }

Archives == SeqsUpTo(ArchiveEntries, MaxEntries)

VARIABLES plat, zipFilePath, templateDir, winParts, rpc, res,
          op, toolName, repoName, version, hideReleaseNotes, pc, queried, tag,
          trace, log, exitCode, ret, exe, archive, idx, dirs, files, lastWrite,
          cbFail

rvars == <<plat, zipFilePath, templateDir, winParts, rpc, res>>

wvars == <<op, toolName, repoName, version, hideReleaseNotes, pc, queried, tag,
           trace, log, exitCode, ret, exe, archive, idx, dirs, files, lastWrite,
           cbFail>>

vars == <<rvars, wvars>>

NoResult == [outcome |-> "none", path |-> NoPath, skip |-> FALSE, err |-> FALSE,
             made |-> NoPath]

NoFiles == [p \in {} |-> NoWrite]

NoReturn == [value |-> <<>>, err |-> "pending"]

\* the state of the operations before any of them is called
IdleOperations ==
  /\ op = "none"
  /\ toolName = "tool"
  /\ repoName = ""
  /\ version = <<>>
  /\ hideReleaseNotes = FALSE
  /\ pc = "idle"
  /\ queried = "none"
  /\ tag = <<>>
  /\ trace = <<>>
  /\ log = <<>>
  /\ exitCode = -1
  /\ ret = NoReturn
  /\ exe = "old"
  /\ archive = <<>>
  /\ idx = 1
  /\ dirs = {}
  /\ files = NoFiles
  /\ lastWrite = NoWrite
  /\ cbFail = "none"

(***************************************************************************)
(* The resolver alone: one call on a generated entry path.                 *)
(***************************************************************************)
InitResolve ==
  /\ plat \in Platforms
  /\ zipFilePath \in EntryPaths
  /\ templateDir \in BaseDirs
  /\ winParts = <<>>
  /\ rpc = "call"
  /\ res = NoResult
  /\ IdleOperations

\* one call of calculateTemplateAbsolutePath
Resolve ==
  /\ rpc = "call"
  /\ \E parts \in WindowsPartsChoices(FilepathSplit(plat, zipFilePath).dir),
        mkdirOk \in BOOLEAN :
       /\ winParts' = IF plat = "windows" THEN parts ELSE <<>>
       /\ res' = calculateTemplateAbsolutePath(plat, zipFilePath, templateDir,
                                               parts, mkdirOk)
  /\ rpc' = "done"
  /\ UNCHANGED <<plat, zipFilePath, templateDir>>
  /\ UNCHANGED wvars

NextResolve == Resolve

SpecResolve == InitResolve /\ [][NextResolve]_vars

InitResolveUnix == InitResolve /\ plat = "unix"

SpecResolveUnix == InitResolveUnix /\ [][NextResolve]_vars

(***************************************************************************)
(* The three operations.                                                   *)
(***************************************************************************)
InitOperation ==
  /\ op \in {"tool", "version", "dir"}
  /\ toolName \in ToolNames
  /\ repoName \in RepoNames
  /\ version \in (IF op = "tool" THEN VersionStrings ELSE {<<>>})
  /\ hideReleaseNotes \in (IF op = "tool" THEN BOOLEAN ELSE {FALSE})
  /\ archive \in (IF op = "dir" THEN Archives ELSE {<<>>})
  /\ plat \in (IF op = "dir" THEN Platforms ELSE {"unix"})
  /\ templateDir \in (IF op = "dir" THEN {<<"/","t">>} ELSE {<<>>})
  /\ pc = "start"
  /\ queried = "none"
  /\ tag = <<>>
  /\ trace = <<>>
  /\ log = <<>>
  /\ exitCode = -1
  /\ ret = NoReturn
  /\ exe = "old"
  /\ idx = 1
  /\ dirs = {}
  /\ files = NoFiles
  /\ lastWrite = NoWrite
  /\ cbFail = "none"
  /\ zipFilePath = <<>>
  /\ winParts = <<>>
  /\ rpc = "idle"
  /\ res = NoResult

Init == InitOperation

Logged(level, msg) == Append(log, [level |-> level, msg |-> msg])

\* gologger.Fatal().Msgf: the message is written and the process exits with 1
Fatal(msg) ==
  /\ log' = Logged("fatal", msg)
  /\ exitCode' = 1
  /\ pc' = "exited"

\* a callback that returns (value, err) to its caller
Return(value, err) ==
  /\ ret' = [value |-> value, err |-> err]
  /\ pc' = "returned"

\* the calls made so far, each with whether it succeeded
Called(call, ok) == Append(trace, [call |-> call, ok |-> ok])

\* the repository identifier passed on as it was given
RepoQueriedAsGiven(tool, repo) == repo

\* the repository the release source is asked for (lines 51-53, 116-118, 145-147)
RepoQueried(tool, repo) == IF repo = "" THEN tool ELSE repo

\* the tag of the latest release, which the directory extraction never reads
ReleaseTags(operation) == IF operation = "dir" THEN {<<>>} ELSE VersionStrings

\* NewghReleaseDownloader(repoName) and the handling of its error, in each of
\* the three operations (lines 51-58, 116-124, 145-151)
Fetch ==
  /\ pc = "start"
  /\ queried' = RepoQueried(toolName, repoName)
  /\ \E ok \in BOOLEAN, latestTag \in ReleaseTags(op) :
      /\ trace' = Called("fetch", ok)
      /\ IF ok
         THEN /\ tag' = latestTag
              /\ pc' = "fetched"
              /\ UNCHANGED <<log, exitCode, ret>>
         ELSE /\ tag' = tag
              /\ IF op = "tool"
                   THEN Fatal("failed to download latest release") /\ ret' = ret
                   ELSE Return(<<>>, "fetch") /\ UNCHANGED <<log, exitCode>>
  /\ UNCHANGED <<op, toolName, repoName, version, hideReleaseNotes, exe, archive,
                 idx, dirs, files, lastWrite, cbFail>>
  /\ UNCHANGED rvars

\* semver.NewVersion(gh.Latest.GetTagName()) in the update and in the version
\* check (lines 59-62, 125-129)
ParseLatest ==
  /\ op \in {"tool", "version"}
  /\ pc = "fetched"
  /\ trace' = Called("parseLatest", NewVersion(tag).ok)
  /\ IF NewVersion(tag).ok
       THEN IF op = "tool"
              THEN pc' = "latestParsed" /\ UNCHANGED <<log, exitCode, ret>>
              ELSE Return(VersionString(NewVersion(tag)), "nil")
                     /\ UNCHANGED <<log, exitCode>>
       ELSE IF op = "tool"
              THEN Fatal("failed to parse semversion from tagname") /\ ret' = ret
              ELSE Return(<<>>, "parse") /\ UNCHANGED <<log, exitCode>>
  /\ UNCHANGED <<op, toolName, repoName, version, hideReleaseNotes, queried, tag,
                 exe, archive, idx, dirs, files, lastWrite, cbFail>>
  /\ UNCHANGED rvars

\* semver.NewVersion(version) (lines 63-66)
ParseCurrent ==
  /\ op = "tool"
  /\ pc = "latestParsed"
  /\ trace' = Called("parseCurrent", NewVersion(version).ok)
  /\ IF NewVersion(version).ok
       THEN pc' = "currentParsed" /\ UNCHANGED <<log, exitCode>>
       ELSE Fatal("failed to parse semversion from current version")
  /\ UNCHANGED <<op, toolName, repoName, version, hideReleaseNotes, queried, tag,
                 ret, exe, archive, idx, dirs, files, lastWrite, cbFail>>
  /\ UNCHANGED rvars

\* the update going on unless the current version is newer than the latest
UpdateNeededUnlessNewer(current, latest) ==
  ~IsOutdated(VersionString(NewVersion(latest)), VersionString(NewVersion(current)))

\* whether lines 68-71 let the update go on
UpdateNeeded(current, latest) ==
  IsOutdated(VersionString(NewVersion(current)), VersionString(NewVersion(latest)))

\* the outdated check and the exit with status 0 (lines 67-71)
CheckOutdated ==
  /\ op = "tool"
  /\ pc = "currentParsed"
  /\ trace' = Called("isOutdated", UpdateNeeded(version, tag))
  /\ IF UpdateNeeded(version, tag)
       THEN pc' = "outdated" /\ UNCHANGED <<log, exitCode>>
       ELSE /\ log' = Logged("info", "is already updated to latest version")
            /\ exitCode' = 0
            /\ pc' = "exited"
  /\ UNCHANGED <<op, toolName, repoName, version, hideReleaseNotes, queried, tag,
                 ret, exe, archive, idx, dirs, files, lastWrite, cbFail>>
  /\ UNCHANGED rvars

\* the permission check with its error dropped
CheckPermissionsUnchecked ==
  /\ op = "tool"
  /\ pc = "outdated"
  /\ \E ok \in BOOLEAN :
      /\ trace' = Called("checkPermissions", ok)
      /\ pc' = "permitted"
  /\ UNCHANGED <<op, toolName, repoName, version, hideReleaseNotes, queried, tag,
                 log, exitCode, ret, exe, archive, idx, dirs, files, lastWrite,
                 cbFail>>
  /\ UNCHANGED rvars

\* updateOpts.CheckPermissions() (lines 72-76)
CheckPermissions ==
  /\ op = "tool"
  /\ pc = "outdated"
  /\ \E ok \in BOOLEAN :
      /\ trace' = Called("checkPermissions", ok)
      /\ IF ok
         THEN pc' = "permitted" /\ UNCHANGED <<log, exitCode>>
         ELSE Fatal("insufficient permission detected")
  /\ UNCHANGED <<op, toolName, repoName, version, hideReleaseNotes, queried, tag,
                 ret, exe, archive, idx, dirs, files, lastWrite, cbFail>>
  /\ UNCHANGED rvars

\* gh.GetExecutableFromAsset() (lines 77-80)
GetExecutableFromAsset ==
  /\ op = "tool"
  /\ pc = "permitted"
  /\ \E ok \in BOOLEAN :
      /\ trace' = Called("getExecutableFromAsset", ok)
      /\ IF ok
         THEN pc' = "downloaded" /\ UNCHANGED <<log, exitCode>>
         ELSE Fatal("executable not found in release asset")
  /\ UNCHANGED <<op, toolName, repoName, version, hideReleaseNotes, queried, tag,
                 ret, exe, archive, idx, dirs, files, lastWrite, cbFail>>
  /\ UNCHANGED rvars

ApplyOutcomes == {"applied", "rolledBack", "rollbackFailed"}

\* lines 82-88 without the os.Exit(1) of line 87: a rolled-back update goes on
\* to the success report
AfterApplyWithoutExit(how) ==
  IF how = "applied"
    THEN [log |-> <<>>, exitCode |-> -1, pc |-> "applied", exe |-> "new"]
    ELSE IF how = "rolledBack"
      THEN [log |-> <<[level |-> "error", msg |-> "update failed, rolling back update"]>>,
            exitCode |-> -1, pc |-> "applied", exe |-> "old"]
      ELSE [log |-> <<[level |-> "error", msg |-> "update failed, rolling back update"],
                      [level |-> "fatal", msg |-> "rollback of update failed"]>>,
            exitCode |-> 1, pc |-> "exited", exe |-> "broken"]

\* what lines 82-88 do with the result of selfupdate.Apply: how is "applied",
\* "rolledBack" (Apply failed, RollbackError is nil) or "rollbackFailed"
AfterApply(how) ==
  IF how = "applied"
    THEN [log |-> <<>>, exitCode |-> -1, pc |-> "applied", exe |-> "new"]
    ELSE IF how = "rolledBack"
      THEN [log |-> <<[level |-> "error", msg |-> "update failed, rolling back update"]>>,
            exitCode |-> 1, pc |-> "exited", exe |-> "old"]
      ELSE [log |-> <<[level |-> "error", msg |-> "update failed, rolling back update"],
                      [level |-> "fatal", msg |-> "rollback of update failed"]>>,
            exitCode |-> 1, pc |-> "exited", exe |-> "broken"]

\* selfupdate.Apply and the rollback handling (lines 82-88)
Apply ==
  /\ op = "tool"
  /\ pc = "downloaded"
  /\ \E how \in ApplyOutcomes :
       /\ trace' = (IF how = "applied"
                      THEN Called("apply", TRUE)
                      ELSE Append(Called("apply", FALSE),
                                  [call |-> "rollback", ok |-> how = "rolledBack"]))
       /\ log' = log \o AfterApply(how).log
       /\ exitCode' = AfterApply(how).exitCode
       /\ pc' = AfterApply(how).pc
       /\ exe' = AfterApply(how).exe
  /\ UNCHANGED <<op, toolName, repoName, version, hideReleaseNotes, queried, tag,
                 ret, archive, idx, dirs, files, lastWrite, cbFail>>
  /\ UNCHANGED rvars

\* the success report, the release notes unless hidden, and exit 0 (lines 90-107)
ReportSuccess ==
  /\ op = "tool"
  /\ pc = "applied"
  /\ log' = (IF hideReleaseNotes
               THEN Logged("info", "sucessfully updated")
               ELSE Append(Logged("info", "sucessfully updated"),
                           [level |-> "print", msg |-> "release notes"]))
  /\ exitCode' = 0
  /\ pc' = "exited"
  /\ UNCHANGED <<op, toolName, repoName, version, hideReleaseNotes, queried, tag,
                 trace, ret, exe, archive, idx, dirs, files, lastWrite, cbFail>>
  /\ UNCHANGED rvars

\* downloader.DownloadSourceWithCallback opens the source archive (line 167)
OpenArchive ==
  /\ op = "dir"
  /\ pc = "fetched"
  /\ \E ok \in BOOLEAN :
      /\ trace' = Called("downloadSource", ok)
      /\ IF ok THEN pc' = "iterating" /\ ret' = ret
             ELSE Return(<<>>, "download")
  /\ UNCHANGED <<op, toolName, repoName, version, hideReleaseNotes, queried, tag,
                 log, exitCode, exe, archive, idx, dirs, files, lastWrite, cbFail>>
  /\ UNCHANGED rvars

\* the directories os.MkdirAll was asked for, each made with its missing ancestors
MadeDirs(made) == IF made = NoPath THEN {} ELSE {made}

\* DownloadSourceWithCallback calls the callback on the next entry; an error of
\* the callback ends the iteration and is returned (lines 167-169), a panic of
\* the resolver ends the process
ProcessEntry ==
  /\ op = "dir"
  /\ pc = "iterating"
  /\ idx <= Len(archive)
  /\ \E parts \in WindowsPartsChoices(FilepathSplit(plat, archive[idx].path).dir),
        env \in Environments :
       \E c \in {callback(plat, archive[idx], templateDir, parts, env, files)} :
           /\ zipFilePath' = archive[idx].path
           /\ winParts' = IF plat = "windows" THEN parts ELSE <<>>
           /\ res' = c.r
           /\ cbFail' = c.fail
           /\ dirs' = dirs \cup MadeDirs(c.r.made)
           /\ files' = c.files
           /\ lastWrite' = IF c.wrote = NoWrite THEN lastWrite ELSE c.wrote
           /\ IF c.fail = "panic"
                THEN pc' = "panicked" /\ idx' = idx /\ ret' = ret
                ELSE IF c.err
                  THEN Return(<<>>, "download") /\ idx' = idx
                  ELSE pc' = pc /\ idx' = idx + 1 /\ ret' = ret
  /\ UNCHANGED <<op, toolName, repoName, version, hideReleaseNotes, queried, tag,
                 trace, log, exitCode, exe, archive>>
  /\ UNCHANGED <<plat, templateDir, rpc>>

\* every entry was handed to the callback: the operation returns nil (line 170)
FinishArchive ==
  /\ op = "dir"
  /\ pc = "iterating"
  /\ idx > Len(archive)
  /\ Return(<<>>, "nil")
  /\ UNCHANGED <<op, toolName, repoName, version, hideReleaseNotes, queried, tag,
                 trace, log, exitCode, exe, archive, idx, dirs, files, lastWrite,
                 cbFail>>
  /\ UNCHANGED rvars

Next ==
  \/ Fetch
  \/ ParseLatest
  \/ ParseCurrent
  \/ CheckOutdated
  \/ CheckPermissions
  \/ GetExecutableFromAsset
  \/ Apply
  \/ ReportSuccess
  \/ OpenArchive
  \/ ProcessEntry
  \/ FinishArchive

Spec == Init /\ [][Next]_vars

(***************************************************************************)
(* Properties of the resolver.                                             *)
(***************************************************************************)
\* dest lies strictly below base: same root, base's cleaned components a proper
\* prefix of dest's, and no ".." after them
IsDescendant(os, dest, base) ==
  LET dc == CleanComps(os, dest)
      bc == CleanComps(os, base)
  IN  /\ dest # <<>>
      /\ IsRooted(os, dest) = IsRooted(os, base)
      /\ Len(bc) < Len(dc)
      /\ SubSeq(dc, 1, Len(bc)) = bc
      /\ \A i \in (Len(bc) + 1)..Len(dc) : dc[i] # <<".", ".">>

fileNameOfEntry == FilepathSplit(plat, zipFilePath).file
directoryOfEntry == FilepathSplit(plat, zipFilePath).dir

ExactlyOne(a, b, c) == (a /\ ~b /\ ~c) \/ (~a /\ b /\ ~c) \/ (~a /\ ~b /\ c)

\* C1: every call ends in exactly one of skip = true, a non-nil error, or a
\* destination path below the base directory.
C1_EndsInSkipErrorOrDescendant ==
  rpc = "done" =>
    /\ res.outcome = "return"
    /\ ExactlyOne(res.skip, res.err, IsDescendant(plat, res.path, templateDir))

\* The part of C1 that holds on every platform: a returned destination path is
\* never outside the base directory.
NoReturnedPathOutsideBase ==
  (res.outcome = "return" /\ ~res.skip /\ ~res.err) =>
    IsDescendant(plat, res.path, templateDir)

\* C10: the call never fails on directoryPathChunks[1:].
C10_NeverPanicsOnSlice ==
  rpc = "done" => res.outcome # "panic"

rootStrippedDirectory ==
  FilepathJoin(plat, Tail(DirectoryPathChunks(plat, directoryOfEntry, winParts)))

CallsMade == {trace[i].call : i \in 1..Len(trace)}

Failed(call) == \E i \in 1..Len(trace) : trace[i].call = call /\ ~trace[i].ok

LogLevels == {log[i].level : i \in 1..Len(log)}

LogMessages == {log[i].msg : i \in 1..Len(log)}

ChecksBeforeWrite ==
  <<"fetch", "parseLatest", "parseCurrent", "isOutdated", "checkPermissions">>

\* C3: in the update of the executable, the asset download and Apply come only
\* after the fetch, the parse of both versions, the outdated check and the
\* permission check, in this order and each successful; a version that does
\* not parse or a failed permission check ends the run fatally with no write
\* to the executable.
C3_WriteOnlyAfterChecks ==
  op = "tool" =>
    /\ \A i \in 1..Len(trace) :
         trace[i].call \in {"getExecutableFromAsset", "apply"} =>
           /\ i > Len(ChecksBeforeWrite)
           /\ \A j \in 1..Len(ChecksBeforeWrite) :
                trace[j].call = ChecksBeforeWrite[j] /\ trace[j].ok
           /\ NewVersion(tag).ok
           /\ NewVersion(version).ok
    /\ (\/ ("parseLatest" \in CallsMade /\ ~NewVersion(tag).ok)
        \/ ("parseCurrent" \in CallsMade /\ ~NewVersion(version).ok)
        \/ Failed("checkPermissions"))
         => /\ pc = "exited"
            /\ exitCode = 1
            /\ log # <<>> /\ log[Len(log)].level = "fatal"
            /\ CallsMade \cap {"getExecutableFromAsset", "apply"} = {}
            /\ exe = "old"

\* Apply was reached
C3_Witness ==
  /\ op = "tool"
  /\ "apply" \in CallsMade
  /\ exe = "new"

\* C4: when the current version is not outdated with respect to the latest
\* tag (equal versions included), the update stops with exit status 0 and
\* without an error, and checks no permission, downloads no asset and applies
\* nothing.
C4_UpToDateStopsWithStatusZero ==
  ( /\ op = "tool"
    /\ "isOutdated" \in CallsMade
    /\ ~VersionLess(NewVersion(version), NewVersion(tag)) )
  => /\ pc = "exited"
     /\ exitCode = 0
     /\ LogLevels = {"info"}
     /\ CallsMade \cap {"checkPermissions", "getExecutableFromAsset", "apply"} = {}
     /\ exe = "old"

\* the two versions are equal, written differently, and the run has stopped
C4_Witness ==
  /\ op = "tool"
  /\ "isOutdated" \in CallsMade
  /\ version # tag
  /\ NewVersion(version) = NewVersion(tag)
  /\ exitCode = 0

C7_RepoDefaultAndFetchFailure ==
  /\ queried # "none" =>
       /\ repoName = "" => queried = toolName
       /\ repoName # "" => queried = repoName
  /\ trace # <<>> => trace[1].call = "fetch" /\ queried # "none"
  /\ Failed("fetch") =>
       /\ Len(trace) = 1
       /\ IF op = "tool"
            THEN /\ pc = "exited" /\ exitCode = 1
                 /\ log = <<[level |-> "fatal",
                             msg |-> "failed to download latest release"]>>
            ELSE pc = "returned" /\ ret = [value |-> <<>>, err |-> "fetch"]
       /\ files = NoFiles /\ dirs = {} /\ exe = "old"

\* the repository was empty and the query for toolName failed
C7_Witness ==
  /\ repoName = ""
  /\ queried = toolName
  /\ Failed("fetch")
  /\ op = "dir"

\* a step of the directory extraction that hands archive[idx] to the callback
AtEntry == op = "dir" /\ pc = "iterating" /\ idx <= Len(archive)

\* C6: when the callback fails on an entry (directory creation, read or write),
\* it returns an error and not a skip, the operation returns an error, no
\* later entry is processed, and the files of earlier entries stay on disk.
C6_CallbackFailureAborts ==
  [][ /\ (AtEntry /\ cbFail' \in {"mkdir", "read", "write"}) =>
           /\ ~res'.skip
           /\ pc' = "returned"
           /\ ret'.err \notin {"nil", "pending"}
           /\ idx' = idx
           /\ \A p \in DOMAIN files :
                /\ p \in DOMAIN files'
                /\ p # res'.path => files'[p] = files[p]
      /\ pc \notin {"returned", "panicked"}
    ]_vars

\* the second of three entries failed after the first was written
C6_Witness ==
  /\ op = "dir"
  /\ pc = "returned"
  /\ cbFail \in {"mkdir", "read", "write"}
  /\ idx = 2
  /\ Len(archive) = 3
  /\ DOMAIN files # {}

\* C9: an entry the resolver skips (empty name, dot-prefixed name other than
\* the version marker, README.md in any case, dot-prefixed root-stripped
\* directory) changes nothing on disk, returns no error and lets the iteration
\* go on; a resolved entry whose callback returns nil has its content written
\* to the resolved destination with the entry's permission bits.
C9_SkipChangesNothingAndResolvedIsWritten ==
  [][ AtEntry =>
        LET e == archive[idx]
            name == FilepathSplit(plat, e.path).file
            directory == FilepathSplit(plat, e.path).dir
            nameSkips == \/ name = <<>>
                         \/ HasPrefix(name, <<".">>) /\ ~EqualFold(name, DotVersion)
                         \/ EqualFold(name, ReadmeName)
            dirSkips == /\ plat = "unix"
                        /\ HasPrefix(FilepathJoin(plat, Tail(SplitBy(directory, {"/"}))),
                                     <<".">>)
            skipped == res'.outcome = "return" /\ res'.skip
        IN  /\ (nameSkips \/ dirSkips) => skipped
            /\ skipped =>
                 /\ dirs' = dirs /\ files' = files /\ lastWrite' = lastWrite
                 /\ ret' = ret /\ pc' = pc /\ idx' = idx + 1
            /\ (res'.outcome = "return" /\ ~res'.skip /\ ~res'.err /\ idx' = idx + 1) =>
                 /\ res'.path \in DOMAIN files'
                 /\ files'[res'.path].data = e.data
                 /\ lastWrite' = [path |-> res'.path, data |-> e.data, perm |-> e.mode]
                 /\ res'.made \in dirs'
    ]_vars

\* an entry was written and the next one was skipped
C9_Witness ==
  /\ op = "dir"
  /\ pc = "iterating"
  /\ idx = 3
  /\ res.outcome = "return" /\ res.skip
  /\ lastWrite # NoWrite
  /\ Cardinality(DOMAIN files) = 1

====
